---- MODULE Spec2Model ----
(***************************************************************************)
(* Model of calculate_modified_sar (src/app.py), the modified Parabolic    *)
(* Stop-And-Reverse recurrence.                                            *)
(*                                                                         *)
(* Numbers.  Prices are integers.  The acceleration factor is the integer  *)
(* numerator of a fraction over AFDen (af = 1 means 1/AFDen).  A stop      *)
(* level is an exact fraction <<num, den>> with den > 0: the recurrence    *)
(* sar + af * (ep - sar) multiplies the denominator by AFDen at each bar.  *)
(* Array indices are the source's (0-based); At and Put translate them to  *)
(* the 1-based sequences of TLA+.  af_den is the unit of af_start and      *)
(* af_limit in the call at hand: AFDen for the enumerated inputs, 100 for  *)
(* the worked scenario (af_start = 0.02, prices in tenths).                *)
(***************************************************************************)
EXTENDS Integers, Sequences, FiniteSets, TLC

\* ------------------------------------------------------------------ bounds
MaxBars == 3
MaxPrice == 2
AFDen == 4
MaxRows == 2

\* bars as the Bar Source supplies them: high >= low, the close unconstrained
Prices == 1..MaxPrice
Bars == {b \in [High : Prices, Low : Prices, Close : Prices] : b.High >= b.Low}
Frames == UNION {[1..n -> Bars] : n \in 0..MaxBars}

\* <<af_start, af_limit>> in units of 1/AFDen; the function accepts any pair
AFParams == {<<0, 1>>, <<1, 3>>, <<2, 3>>, <<2, 1>>}

\* the worked scenario of the engine: prices in tenths, af in hundredths
ScenarioBars ==
    << [High |-> 100, Low |-> 90, Close |-> 95],
       [High |-> 110, Low |-> 95, Close |-> 105],
       [High |-> 90, Low |-> 80, Close |-> 82] >>

VARIABLES df, af_start, af_limit, af_den, pc, size, sar, trend, af, ep, i,
          result, err

\* the script around the engine: the text of the symbol box, the session
\* flag, the position of the script run, the data requests of the run and
\* what the run displayed
VARIABLES stock_id, submitted, apc, requests, shown

\* a second call of the engine on a longer frame: the frame, and the result
\* kept from the first call
VARIABLES full, kept

engine == <<df, af_start, af_limit, af_den, pc, size, sar, trend, af, ep, i,
            result, err>>
script == <<stock_id, submitted, apc, requests, shown>>
second == <<full, kept>>

vars == <<engine, script, second>>

\* ------------------------------------------------------- arrays and numbers
At(a, k) == a[k + 1]
Put(a, k, v) == [a EXCEPT ![k + 1] = v]

\* the columns of the frame, at a 0-based index
high(k) == df[k + 1].High
low(k) == df[k + 1].Low
close(k) == df[k + 1].Close

Zeros(n) == [k \in 1..n |-> 0]
ZerosR(n) == [k \in 1..n |-> <<0, 1>>]
Ones(n) == [k \in 1..n |-> 1]
Full(n, v) == [k \in 1..n |-> v]

Min(a, b) == IF a <= b THEN a ELSE b

\* comparisons of an integer price x with a fraction r = <<num, den>>
LE(x, r) == x * r[2] <= r[1]
GE(x, r) == x * r[2] >= r[1]
LT(x, r) == x * r[2] < r[1]
GT(x, r) == x * r[2] > r[1]
EQ(x, r) == x * r[2] = r[1]

\* ------------------------------------------------------------ the recurrence
\* CurrentSar stepping with af + 1: the stop goes past the extreme
CurrentSarPast(prev_sar, prev_af, prev_ep) ==
    << prev_sar[1] * af_den
         + (prev_af + af_den) * (prev_ep * prev_sar[2] - prev_sar[1]),
       prev_sar[2] * af_den >>

\* CurrentSar moving the stop away from the extreme
CurrentSarAway(prev_sar, prev_af, prev_ep) ==
    << prev_sar[1] * af_den - prev_af * (prev_ep * prev_sar[2] - prev_sar[1]),
       prev_sar[2] * af_den >>

\* current_sar = prev_sar + prev_af * (prev_ep - prev_sar)
CurrentSar(prev_sar, prev_af, prev_ep) ==
    << prev_sar[1] * af_den + prev_af * (prev_ep * prev_sar[2] - prev_sar[1]),
       prev_sar[2] * af_den >>

\* InitialTrend as the sign of the first change of the close
InitialTrendSign(n) ==
    IF close(Min(1, n - 1)) > close(0) THEN 1
    ELSE IF close(Min(1, n - 1)) < close(0) THEN -1 ELSE 0

\* InitialTrend comparing the last close of the frame with the first
InitialTrendLast(n) == IF close(n - 1) > close(0) THEN 1 ELSE -1

\* InitialTrend with the comparison not strict
InitialTrendGE(n) == IF close(Min(1, n - 1)) >= close(0) THEN 1 ELSE -1

\* trend[0] = 1 if close[min(1, size-1)] > close[0] else -1
InitialTrend(n) == IF close(Min(1, n - 1)) > close(0) THEN 1 ELSE -1

\* Decide with the reset on a touch left out
DecideNoReset(prev_trend, prev_af, prev_ep, current_sar, h, l, c, start) ==
    LET keep == [new_trend |-> prev_trend, new_af |-> prev_af,
                 new_ep |-> prev_ep, current_sar |-> current_sar]
    IN  IF prev_trend = 1
        THEN IF LE(l, current_sar) /\ ~GT(c, current_sar)
             THEN [new_trend |-> -1, current_sar |-> <<prev_ep, 1>>,
                   new_af |-> start, new_ep |-> l]
             ELSE keep
        ELSE IF GE(h, current_sar) /\ ~LT(c, current_sar)
             THEN [new_trend |-> 1, current_sar |-> <<prev_ep, 1>>,
                   new_af |-> start, new_ep |-> h]
             ELSE keep

\* Decide with the extreme not restarted at a reversal
DecideKeepsExtreme(prev_trend, prev_af, prev_ep, current_sar, h, l, c, start) ==
    LET keep == [new_trend |-> prev_trend, new_af |-> prev_af,
                 new_ep |-> prev_ep, current_sar |-> current_sar]
    IN  IF prev_trend = 1
        THEN IF LE(l, current_sar)
             THEN IF GT(c, current_sar)
                  THEN [keep EXCEPT !.new_af = start]
                  ELSE [new_trend |-> -1, current_sar |-> <<prev_ep, 1>>,
                        new_af |-> start, new_ep |-> prev_ep]
             ELSE keep
        ELSE IF GE(h, current_sar)
             THEN IF LT(c, current_sar)
                  THEN [keep EXCEPT !.new_af = start]
                  ELSE [new_trend |-> 1, current_sar |-> <<prev_ep, 1>>,
                        new_af |-> start, new_ep |-> prev_ep]
             ELSE keep

\* Decide as the classical SAR: any touch reverses, whatever the close
DecideClassic(prev_trend, prev_af, prev_ep, current_sar, h, l, c, start) ==
    LET keep == [new_trend |-> prev_trend, new_af |-> prev_af,
                 new_ep |-> prev_ep, current_sar |-> current_sar]
    IN  IF prev_trend = 1
        THEN IF LE(l, current_sar)
             THEN [new_trend |-> -1, current_sar |-> <<prev_ep, 1>>,
                   new_af |-> start, new_ep |-> l]
             ELSE keep
        ELSE IF GE(h, current_sar)
             THEN [new_trend |-> 1, current_sar |-> <<prev_ep, 1>>,
                   new_af |-> start, new_ep |-> h]
             ELSE keep

\* Decide with the two values of a reversal exchanged: the stop goes to the
\* bar's low / high and the extreme stays
DecideSwapped(prev_trend, prev_af, prev_ep, current_sar, h, l, c, start) ==
    LET keep == [new_trend |-> prev_trend, new_af |-> prev_af,
                 new_ep |-> prev_ep, current_sar |-> current_sar]
    IN  IF prev_trend = 1
        THEN IF LE(l, current_sar)
             THEN IF GT(c, current_sar)
                  THEN [keep EXCEPT !.new_af = start]
                  ELSE [new_trend |-> -1, current_sar |-> <<l, 1>>,
                        new_af |-> start, new_ep |-> prev_ep]
             ELSE keep
        ELSE IF GE(h, current_sar)
             THEN IF LT(c, current_sar)
                  THEN [keep EXCEPT !.new_af = start]
                  ELSE [new_trend |-> 1, current_sar |-> <<h, 1>>,
                        new_af |-> start, new_ep |-> prev_ep]
             ELSE keep

\* Decide with the touch tests strict: a low / high exactly on the stop misses
DecideStrictTouch(prev_trend, prev_af, prev_ep, current_sar, h, l, c, start) ==
    LET keep == [new_trend |-> prev_trend, new_af |-> prev_af,
                 new_ep |-> prev_ep, current_sar |-> current_sar]
    IN  IF prev_trend = 1
        THEN IF LT(l, current_sar)
             THEN IF GT(c, current_sar)
                  THEN [keep EXCEPT !.new_af = start]
                  ELSE [new_trend |-> -1, current_sar |-> <<prev_ep, 1>>,
                        new_af |-> start, new_ep |-> l]
             ELSE keep
        ELSE IF GT(h, current_sar)
             THEN IF LT(c, current_sar)
                  THEN [keep EXCEPT !.new_af = start]
                  ELSE [new_trend |-> 1, current_sar |-> <<prev_ep, 1>>,
                        new_af |-> start, new_ep |-> h]
             ELSE keep

\* the touch / reversal decision of one bar
Decide(prev_trend, prev_af, prev_ep, current_sar, h, l, c, start) ==
    LET keep == [new_trend |-> prev_trend, new_af |-> prev_af,
                 new_ep |-> prev_ep, current_sar |-> current_sar]
    IN  IF prev_trend = 1
        THEN IF LE(l, current_sar)
             THEN IF GT(c, current_sar)
                  THEN [keep EXCEPT !.new_af = start]
                  ELSE [new_trend |-> -1, current_sar |-> <<prev_ep, 1>>,
                        new_af |-> start, new_ep |-> l]
             ELSE keep
        ELSE IF GE(h, current_sar)
             THEN IF LT(c, current_sar)
                  THEN [keep EXCEPT !.new_af = start]
                  ELSE [new_trend |-> 1, current_sar |-> <<prev_ep, 1>>,
                        new_af |-> start, new_ep |-> h]
             ELSE keep

\* UpdateEP without the ceiling af_limit
UpdateEPNoCap(d, h, l, start, limit) ==
    IF d.new_trend = 1
    THEN IF h > d.new_ep
         THEN [d EXCEPT !.new_ep = h, !.new_af = d.new_af + start]
         ELSE d
    ELSE IF l < d.new_ep
         THEN [d EXCEPT !.new_ep = l, !.new_af = d.new_af + start]
         ELSE d

\* UpdateEP taking the bar's high / low as the extreme without comparing
UpdateEPAlways(d, h, l, start, limit) ==
    IF d.new_trend = 1
    THEN IF h > d.new_ep
         THEN [d EXCEPT !.new_ep = h, !.new_af = Min(limit, d.new_af + start)]
         ELSE [d EXCEPT !.new_ep = h]
    ELSE IF l < d.new_ep
         THEN [d EXCEPT !.new_ep = l, !.new_af = Min(limit, d.new_af + start)]
         ELSE [d EXCEPT !.new_ep = l]

\* UpdateEP with the comparisons not strict: a tie counts as a new extreme
UpdateEPInclusive(d, h, l, start, limit) ==
    IF d.new_trend = 1
    THEN IF h >= d.new_ep
         THEN [d EXCEPT !.new_ep = h, !.new_af = Min(limit, d.new_af + start)]
         ELSE d
    ELSE IF l <= d.new_ep
         THEN [d EXCEPT !.new_ep = l, !.new_af = Min(limit, d.new_af + start)]
         ELSE d

\* the update of the extreme point and of the acceleration factor
UpdateEP(d, h, l, start, limit) ==
    IF d.new_trend = 1
    THEN IF h > d.new_ep
         THEN [d EXCEPT !.new_ep = h, !.new_af = Min(limit, d.new_af + start)]
         ELSE d
    ELSE IF l < d.new_ep
         THEN [d EXCEPT !.new_ep = l, !.new_af = Min(limit, d.new_af + start)]
         ELSE d

\* the return with the seed index dropped
ReturnedTail(s, t) == <<Tail(s), Tail(t)>>

\* line 87: the pair handed back
Returned(s, t) == <<s, t>>

\* ------------------------------------------------------------------ actions
\* the script is not running and no second call is pending
Apart ==
    /\ stock_id = <<>>
    /\ submitted = FALSE
    /\ apc = "idle"
    /\ requests = <<>>
    /\ shown = "none"
    /\ full = <<>>
    /\ kept = <<>>

Init ==
    /\ \/ /\ df \in Frames
          /\ \E p \in AFParams : af_start = p[1] /\ af_limit = p[2]
          /\ af_den = AFDen
       \/ /\ df = ScenarioBars
          /\ af_start = 2
          /\ af_limit = 20
          /\ af_den = 100
    /\ Apart
    /\ pc = "call"
    /\ size = 0
    /\ sar = <<>>
    /\ trend = <<>>
    /\ af = <<>>
    /\ ep = <<>>
    /\ i = 0
    /\ result = <<>>
    /\ err = "none"

\* lines 21-32 on an empty frame: the arrays are allocated empty and
\* close[min(1, size-1)] = close[-1] raises
EnterRaise ==
    /\ pc = "call"
    /\ Len(df) = 0
    /\ size' = Len(df)
    /\ sar' = ZerosR(Len(df))
    /\ trend' = Ones(Len(df))
    /\ af' = Full(Len(df), af_start)
    /\ ep' = Zeros(Len(df))
    /\ pc' = "raised"
    /\ err' = "IndexError"
    /\ UNCHANGED <<df, af_start, af_limit, af_den, i, result, script, second>>

\* lines 21-34: allocate the four arrays and set the values at index 0
Enter ==
    /\ pc = "call"
    /\ Len(df) > 0
    /\ size' = Len(df)
    /\ LET t0 == InitialTrend(Len(df))
       IN  /\ trend' = Put(Ones(Len(df)), 0, t0)
           /\ sar' = Put(ZerosR(Len(df)), 0,
                         IF t0 = 1 THEN <<low(0), 1>> ELSE <<high(0), 1>>)
           /\ ep' = Put(Zeros(Len(df)), 0, IF t0 = 1 THEN high(0) ELSE low(0))
    /\ af' = Full(Len(df), af_start)
    /\ i' = 1
    /\ pc' = "loop"
    /\ UNCHANGED <<df, af_start, af_limit, af_den, result, err, script, second>>

\* lines 36-85: one iteration of the loop
Step ==
    /\ pc = "loop"
    /\ i < size
    /\ LET prev_sar == At(sar, i - 1)
           prev_trend == At(trend, i - 1)
           prev_af == At(af, i - 1)
           prev_ep == At(ep, i - 1)
           current_sar == CurrentSar(prev_sar, prev_af, prev_ep)
           d == UpdateEP(Decide(prev_trend, prev_af, prev_ep, current_sar,
                                high(i), low(i), close(i), af_start),
                         high(i), low(i), af_start, af_limit)
       IN  /\ sar' = Put(sar, i, d.current_sar)
           /\ trend' = Put(trend, i, d.new_trend)
           /\ af' = Put(af, i, d.new_af)
           /\ ep' = Put(ep, i, d.new_ep)
    /\ i' = i + 1
    /\ UNCHANGED <<df, af_start, af_limit, af_den, pc, size, result, err, script,
                   second>>

\* line 87: return sar, trend
Return ==
    /\ pc = "loop"
    /\ i >= size
    /\ result' = Returned(sar, trend)
    /\ pc' = "done"
    /\ UNCHANGED <<df, af_start, af_limit, af_den, size, sar, trend, af, ep, i, err,
                   script, second>>

Next == EnterRaise \/ Enter \/ Step \/ Return

Spec == Init /\ [][Next]_vars

\* ------------------------------------------------------- the script (app)
\* Text is a sequence of characters.  The symbol box holds one of these.
TW == <<".", "T", "W">>
TWO == <<".", "T", "W", "O">>
StockIds ==
    { <<"2", "3", "3", "0">>,
      <<"2", "3", "3", "0", ".", "T", "W">>,
      <<"2", "3", "3", "0", ".", "T", "W", "O">>,
      <<" ", "6", "4", "8", "8", ".", "t", "w", "o">> }

\* str.strip(): blanks off both ends
RECURSIVE Strip(_)
Strip(s) ==
    IF s = <<>> THEN s
    ELSE IF Head(s) = " " THEN Strip(Tail(s))
    ELSE IF s[Len(s)] = " " THEN Strip(SubSeq(s, 1, Len(s) - 1))
    ELSE s

\* str.upper()
UpperChar(c) ==
    CASE c = "t" -> "T"
      [] c = "w" -> "W"
      [] c = "o" -> "O"
      [] OTHER -> c
Upper(s) == [k \in 1..Len(s) |-> UpperChar(s[k])]

\* str.replace(old, new): every occurrence, left to right, not overlapping
RECURSIVE Replace(_, _, _)
Replace(s, old, new) ==
    IF Len(s) < Len(old) THEN s
    ELSE IF SubSeq(s, 1, Len(old)) = old
         THEN new \o Replace(SubSeq(s, Len(old) + 1, Len(s)), old, new)
         ELSE <<Head(s)>> \o Replace(Tail(s), old, new)

\* line 113
BaseId(s) == Replace(Replace(Upper(Strip(s)), TW, <<>>), TWO, <<>>)

\* the tables a download can return, the empty one included
Tables == {t \in Frames : Len(t) <= MaxRows}

\* df.empty taken for false whatever the table
EmptyNever(t) == FALSE

\* df.empty
Empty(t) == Len(t) = 0

\* the two sliders of lines 103-104: af_start <= 0.1 <= af_limit
SliderParams == {<<1, 3>>, <<2, 3>>}

locals == <<pc, size, sar, trend, af, ep, i, result, err>>
widgets == <<stock_id, af_start, af_limit, af_den>>

\* the page is opened: the first run of the script is about to start
AppInit ==
    /\ stock_id \in StockIds
    /\ \E p \in SliderParams : af_start = p[1] /\ af_limit = p[2]
    /\ af_den = AFDen
    /\ submitted = FALSE
    /\ apc = "run"
    /\ requests = <<>>
    /\ shown = "none"
    /\ full = <<>>
    /\ kept = <<>>
    /\ df = <<>>
    /\ pc = "out"
    /\ size = 0
    /\ sar = <<>>
    /\ trend = <<>>
    /\ af = <<>>
    /\ ep = <<>>
    /\ i = 0
    /\ result = <<>>
    /\ err = "none"

\* lines 106-108: the button is pressed; the run it starts sets the flag and
\* asks for a rerun, which has made no request yet
Press ==
    /\ apc = "idle"
    /\ submitted' = TRUE
    /\ apc' = "run"
    /\ requests' = <<>>
    /\ UNCHANGED <<df, widgets, locals, shown, second>>

\* another event of the page (a date is changed): the script is rerun
Interact ==
    /\ apc = "idle"
    /\ apc' = "run"
    /\ requests' = <<>>
    /\ UNCHANGED <<df, widgets, locals, submitted, shown, second>>

\* lines 111, 195-196: not submitted, the run shows the hint and ends
Info ==
    /\ apc = "run"
    /\ ~submitted
    /\ shown' = "info"
    /\ apc' = "idle"
    /\ UNCHANGED <<df, widgets, locals, submitted, requests, second>>

\* lines 111-114: submitted, the run asks for the bars of base_id
Download1 ==
    /\ apc = "run"
    /\ submitted
    /\ \E t \in Tables :
          /\ df' = t
          /\ requests' = <<[symbol |-> BaseId(stock_id), table |-> t]>>
    /\ shown' = "none"
    /\ apc' = "after1"
    /\ UNCHANGED <<widgets, locals, submitted, second>>

\* lines 117-118
Download2 ==
    /\ apc = "after1"
    /\ Empty(df)
    /\ \E t \in Tables :
          /\ df' = t
          /\ requests' = Append(requests,
                                [symbol |-> BaseId(stock_id) \o TW, table |-> t])
    /\ apc' = "after2"
    /\ UNCHANGED <<widgets, locals, submitted, shown, second>>

\* lines 119-120
Download3 ==
    /\ apc = "after2"
    /\ Empty(df)
    /\ \E t \in Tables :
          /\ df' = t
          /\ requests' = Append(requests,
                                [symbol |-> BaseId(stock_id) \o TWO, table |-> t])
    /\ apc' = "after3"
    /\ UNCHANGED <<widgets, locals, submitted, shown, second>>

\* lines 117-124 with df still empty after the third request: the error is
\* shown and the flag is reset
NotFound ==
    /\ apc = "after3"
    /\ Empty(df)
    /\ shown' = "error"
    /\ submitted' = FALSE
    /\ apc' = "idle"
    /\ UNCHANGED <<df, widgets, locals, requests, second>>

\* lines 117-130 with df not empty: no further request, the engine is called
Analyse ==
    /\ apc \in {"after1", "after2", "after3"}
    /\ ~Empty(df)
    /\ pc' = "call"
    /\ apc' = "engine"
    /\ UNCHANGED <<df, widgets, size, sar, trend, af, ep, i, result, err,
                   submitted, requests, shown, second>>

\* lines 131-193: the chart and the summary are drawn and the run ends; its
\* names are gone with it
Render ==
    /\ apc = "engine"
    /\ pc = "done"
    /\ shown' = "chart"
    /\ apc' = "idle"
    /\ df' = <<>>
    /\ pc' = "out"
    /\ size' = 0
    /\ sar' = <<>>
    /\ trend' = <<>>
    /\ af' = <<>>
    /\ ep' = <<>>
    /\ i' = 0
    /\ result' = <<>>
    /\ UNCHANGED <<widgets, err, submitted, requests, second>>

\* the engine is entered with a table that is not empty (C17), so its
\* entry on an empty frame is not a step of the script
AppNext ==
    \/ Press \/ Interact \/ Info
    \/ Download1 \/ Download2 \/ Download3
    \/ NotFound \/ Analyse
    \/ Enter \/ Step \/ Return
    \/ Render

AppSpec == AppInit /\ [][AppNext]_vars

\* ------------------------------------------- two calls, one frame longer
\* The engine is called on a frame of two bars or more, then on the same
\* frame with one more bar and the same parameters.
PrefixParams == {<<1, 3>>, <<2, 1>>}

PrefixInit ==
    /\ full \in {f \in Frames : Len(f) >= 3}
    /\ df = SubSeq(full, 1, Len(full) - 1)
    /\ \E p \in PrefixParams : af_start = p[1] /\ af_limit = p[2]
    /\ af_den = AFDen
    /\ kept = <<>>
    /\ stock_id = <<>>
    /\ submitted = FALSE
    /\ apc = "idle"
    /\ requests = <<>>
    /\ shown = "none"
    /\ pc = "call"
    /\ size = 0
    /\ sar = <<>>
    /\ trend = <<>>
    /\ af = <<>>
    /\ ep = <<>>
    /\ i = 0
    /\ result = <<>>
    /\ err = "none"

\* the first call has returned: its result is kept and the second call is
\* made, on the longer frame, with names of its own
Again ==
    /\ pc = "done"
    /\ kept = <<>>
    /\ kept' = result
    /\ df' = full
    /\ pc' = "call"
    /\ size' = 0
    /\ sar' = <<>>
    /\ trend' = <<>>
    /\ af' = <<>>
    /\ ep' = <<>>
    /\ i' = 0
    /\ result' = <<>>
    /\ UNCHANGED <<af_start, af_limit, af_den, err, script, full>>

PrefixNext == Enter \/ Step \/ Return \/ Again

PrefixSpec == PrefixInit /\ [][PrefixNext]_vars

\* --------------------------------------------------- vocabulary of the claims
\* the indices i >= 1 the loop has already written
Processed == IF pc \in {"loop", "done"} THEN 1..(i - 1) ELSE {}

\* the indices i >= 1 of a scan that has returned
Scanned == IF pc = "done" THEN 1..(size - 1) ELSE {}

ValidInput == Len(df) > 0 /\ af_start > 0 /\ af_limit >= af_start

\* the candidate stop of bar k, from the state carried out of bar k-1
Candidate(k) == CurrentSar(At(sar, k - 1), At(af, k - 1), At(ep, k - 1))

WasUp(k) == At(trend, k - 1) = 1
WasDown(k) == At(trend, k - 1) = -1

\* the low (trend Up) or the high (trend Down) reaches the stop level c
TouchAt(k, c) == IF WasUp(k) THEN LE(low(k), c) ELSE GE(high(k), c)

\* the close stays strictly on the regime side of the stop level c
HoldsAt(k, c) == IF WasUp(k) THEN GT(close(k), c) ELSE LT(close(k), c)

Touch(k) == TouchAt(k, Candidate(k))
CloseHolds(k) == HoldsAt(k, Candidate(k))

TouchWithoutConfirm(k) ==
    LET c == Candidate(k) IN TouchAt(k, c) /\ HoldsAt(k, c)

ConfirmedBreach(k) ==
    LET c == Candidate(k) IN TouchAt(k, c) /\ ~HoldsAt(k, c)

\* bar k goes beyond the extreme carried out of bar k-1, in the direction of
\* the trend in force after bar k
NewExtreme(k) ==
    \/ At(trend, k) = 1 /\ high(k) > At(ep, k - 1)
    \/ At(trend, k) = -1 /\ low(k) < At(ep, k - 1)

\* ------------------------------------------------------------------- claims

\* C1: a frame of one bar returns without error, with trend[0] = Up and
\* stop[0] = low[0].
C1_SingleBarIsUp ==
    (Len(df) = 1 /\ ValidInput) =>
        /\ pc # "raised"
        /\ pc \in {"loop", "done"} =>
              At(trend, 0) = 1 /\ EQ(low(0), At(sar, 0))

\* C2: with an empty frame, af_start <= 0 or af_limit < af_start the call
\* fails before any step of the recurrence runs and nothing is returned.
C2_InvalidParameterRejected ==
    (Len(df) = 0 \/ af_start <= 0 \/ af_limit < af_start) =>
        pc # "done" /\ i <= 1 /\ result = <<>>

\* C3 (as stated): on a touch-without-confirm bar the trend is kept and the
\* acceleration factor carried forward is af_start, also when the bar sets a
\* new extreme.
C3_TouchResetsAccelToStart ==
    \A k \in Scanned :
        (ValidInput /\ TouchWithoutConfirm(k)) =>
            At(trend, k) = At(trend, k - 1) /\ At(af, k) = af_start

\* C3 (amended): on a touch-without-confirm bar the trend is kept and the
\* acceleration factor carried forward is af_start if the bar sets no new
\* extreme, min(af_limit, af_start + af_start) if it does.
C3_TouchResetsAccelThenUpdates ==
    \A k \in Scanned :
        TouchWithoutConfirm(k) =>
            /\ At(trend, k) = At(trend, k - 1)
            /\ At(af, k) = IF NewExtreme(k)
                           THEN Min(af_limit, af_start + af_start)
                           ELSE af_start

C3_Witness ==
    /\ \E k \in Scanned : TouchWithoutConfirm(k) /\ NewExtreme(k)
    /\ \E k \in Scanned :
          TouchWithoutConfirm(k) /\ ~NewExtreme(k) /\ At(af, k - 1) # af_start

\* C4: a touch the close does not hold reverses the trend, moves the stop to
\* the previous extreme, resets the acceleration factor to af_start and sets
\* the extreme to the bar's low (new trend Down) or high (new trend Up); the
\* extreme/acceleration update leaves both as the reversal set them.
C4_ReversalCorrectness ==
    \A k \in Scanned :
        ConfirmedBreach(k) =>
            /\ At(trend, k) = -At(trend, k - 1)
            /\ EQ(At(ep, k - 1), At(sar, k))
            /\ At(af, k) = af_start
            /\ At(ep, k) = IF WasUp(k) THEN low(k) ELSE high(k)

C4_Witness ==
    /\ \E k \in Scanned : ConfirmedBreach(k) /\ WasUp(k)
    /\ \E k \in Scanned : ConfirmedBreach(k) /\ WasDown(k)

\* C5: the trend changes at a bar if and only if the bar touched the
\* candidate stop and its close did not hold on the regime side.
C5_TrendChangesOnlyOnConfirmedBreach ==
    \A k \in Scanned :
        (At(trend, k) # At(trend, k - 1)) <=> ConfirmedBreach(k)

C5_Witness ==
    /\ \E k \in Scanned : TouchWithoutConfirm(k)
    /\ \E k \in Scanned : ~Touch(k) /\ ~CloseHolds(k)

\* C6: for a valid input the acceleration factor stored at every index lies
\* in [af_start, af_limit].
C6_AccelBounds ==
    (ValidInput /\ pc = "done") =>
        \A k \in 0..(size - 1) :
            af_start <= At(af, k) /\ At(af, k) <= af_limit

C6_Witness ==
    /\ ValidInput
    /\ \E k \in Scanned :
          /\ NewExtreme(k)
          /\ At(af, k) = af_limit
          /\ (IF TouchWithoutConfirm(k) THEN af_start ELSE At(af, k - 1)) + af_start
                > af_limit

\* C7: while the trend is kept the extreme only extends in its direction; at
\* a reversal it is reset to the bar's low (new trend Down) or high (Up).
C7_MonotonicExtreme ==
    \A k \in Scanned :
        /\ (At(trend, k) = At(trend, k - 1) /\ At(trend, k) = 1) =>
              At(ep, k) >= At(ep, k - 1)
        /\ (At(trend, k) = At(trend, k - 1) /\ At(trend, k) = -1) =>
              At(ep, k) <= At(ep, k - 1)
        /\ (At(trend, k) # At(trend, k - 1)) =>
              At(ep, k) = IF At(trend, k) = -1 THEN low(k) ELSE high(k)

C7_Witness ==
    /\ \E k \in Scanned :
          At(trend, k) = At(trend, k - 1) /\ At(ep, k) # At(ep, k - 1)
    /\ \E k \in Scanned :
          /\ At(trend, k) = -1 /\ At(trend, k - 1) = 1
          /\ At(ep, k) < At(ep, k - 1)

\* C8: if no processed bar touches its candidate stop, the trend is the one
\* of index 0 throughout and the acceleration factor never decreases.
C8_NoTouchIdempotence ==
    (\A k \in Scanned : ~Touch(k)) =>
        \A k \in Scanned :
            At(trend, k) = At(trend, 0) /\ At(af, k) >= At(af, k - 1)

\* C9: the acceleration factor decreases at a bar only if the bar is a
\* reversal bar or a touch-without-confirm bar.
C9_AccelDecreasesOnlyAtReset ==
    \A k \in Scanned :
        At(af, k) < At(af, k - 1) =>
            ConfirmedBreach(k) \/ TouchWithoutConfirm(k)

\* C10: for a valid input the call returns, and the stop sequence and the
\* trend sequence returned have one element per bar, those the loop stored.
C10_LengthPreservation ==
    ValidInput =>
        /\ pc # "raised"
        /\ pc = "done" =>
              /\ i = Len(df)
              /\ Len(result) = 2
              /\ Len(result[1]) = Len(df) /\ Len(result[2]) = Len(df)
              /\ result[1] = sar /\ result[2] = trend

C10_Witness == ValidInput /\ pc = "done" /\ Len(result[1]) >= 3

\* C11: at every state of the scan the trend stored at index 0 and at every
\* index already written, and every trend returned, is 1 (Up) or -1 (Down).
C11_TrendIsUpOrDown ==
    /\ pc \in {"loop", "done"} =>
          \A k \in 0..(i - 1) : At(trend, k) \in {1, -1}
    /\ pc = "done" =>
          \A k \in 1..Len(result[2]) : result[2][k] \in {1, -1}

C11_Witness ==
    /\ pc = "loop" /\ i = 2 /\ i < size
    /\ At(trend, 0) = -1 /\ At(trend, 1) = 1

\* C12: on the bars (10, 9, 9.5), (11, 9.5, 10.5), (9, 8, 8.2) with
\* af_start = 0.02 and af_limit = 0.2 the scan gives trend Up, stop 9,
\* extreme 10 at index 0; stop 9.02, trend Up, extreme 11, accel 0.04 at
\* index 1; and at index 2, whose candidate stop is 9.0992, a reversal:
\* trend Down, stop 11, accel 0.02, extreme 8.
C12_ConcreteScenario ==
    (/\ df = ScenarioBars /\ af_den = 100 /\ af_start = 2 /\ af_limit = 20
     /\ pc = "done") =>
        /\ At(trend, 0) = 1 /\ EQ(90, At(sar, 0)) /\ At(ep, 0) = 100
        /\ At(af, 0) = 2
        /\ At(sar, 1)[1] * 10 = 902 * At(sar, 1)[2]
        /\ At(trend, 1) = 1 /\ At(ep, 1) = 110 /\ At(af, 1) = 4
        /\ Candidate(2)[1] * 1000 = 90992 * Candidate(2)[2]
        /\ ConfirmedBreach(2)
        /\ At(trend, 2) = -1 /\ EQ(110, At(sar, 2))
        /\ At(af, 2) = 2 /\ At(ep, 2) = 80
        /\ result = <<sar, trend>>

C12_Witness == df = ScenarioBars /\ af_den = 100 /\ pc = "done"

\* C13: with at least two bars trend[0] is Up exactly if close[1] > close[0];
\* stop[0] = low[0] and extreme[0] = high[0] if Up, stop[0] = high[0] and
\* extreme[0] = low[0] if Down; accel[0] = af_start.
C13_Initialization ==
    (pc \in {"loop", "done"} /\ Len(df) >= 2) =>
        /\ At(trend, 0) \in {1, -1}
        /\ At(trend, 0) = 1 <=> close(1) > close(0)
        /\ At(trend, 0) = 1 =>
              EQ(low(0), At(sar, 0)) /\ At(sar, 0)[2] = 1 /\ At(ep, 0) = high(0)
        /\ At(trend, 0) = -1 =>
              EQ(high(0), At(sar, 0)) /\ At(sar, 0)[2] = 1 /\ At(ep, 0) = low(0)
        /\ At(af, 0) = af_start

C13_Witness ==
    /\ pc = "done" /\ Len(df) >= 2
    /\ close(1) = close(0) /\ high(0) > low(0)
    /\ At(trend, 0) = -1 /\ EQ(high(0), At(sar, 0))

\* the low (trend Up) or the high (trend Down) of bar k is exactly the stop
\* level c
LandsOn(k, c) == IF WasUp(k) THEN EQ(low(k), c) ELSE EQ(high(k), c)

\* C14: a bar whose low (Up) or high (Down) is exactly the candidate stop is
\* a touch: with the close strictly on the regime side the trend is kept
\* and the acceleration factor restarts from af_start, otherwise the bar
\* reverses; the acceleration factor of the previous bar is never carried on.
C14_InclusiveTouch ==
    \A k \in Scanned :
        LET c == Candidate(k)
        IN  LandsOn(k, c) =>
               IF HoldsAt(k, c)
               THEN /\ At(trend, k) = At(trend, k - 1)
                    /\ At(af, k) = IF NewExtreme(k)
                                   THEN Min(af_limit, af_start + af_start)
                                   ELSE af_start
               ELSE /\ At(trend, k) = -At(trend, k - 1)
                    /\ EQ(At(ep, k - 1), At(sar, k))
                    /\ At(af, k) = af_start

C14_Witness ==
    /\ \E k \in Scanned :
          LandsOn(k, Candidate(k)) /\ CloseHolds(k) /\ WasUp(k)
    /\ \E k \in Scanned :
          LandsOn(k, Candidate(k)) /\ ~CloseHolds(k) /\ WasDown(k)

\* the state of bar k after the touch / reversal decision, before the update
\* of the extreme
Decided(k) ==
    Decide(At(trend, k - 1), At(af, k - 1), At(ep, k - 1), Candidate(k),
           high(k), low(k), close(k), af_start)

\* C15: after the decision, a high strictly above the extreme (resulting
\* trend Up) or a low strictly below it (Down) becomes the extreme and the
\* acceleration factor becomes min(af_limit, accel + af_start); in every
\* other case, a tie included, both stay as the decision set them.
C15_ExtremeUpdate ==
    \A k \in Scanned :
        LET d == Decided(k)
        IN  /\ At(trend, k) = d.new_trend
            /\ At(sar, k) = d.current_sar
            /\ IF d.new_trend = 1 /\ high(k) > d.new_ep
               THEN /\ At(ep, k) = high(k)
                    /\ At(af, k) = Min(af_limit, d.new_af + af_start)
               ELSE IF d.new_trend = -1 /\ low(k) < d.new_ep
               THEN /\ At(ep, k) = low(k)
                    /\ At(af, k) = Min(af_limit, d.new_af + af_start)
               ELSE /\ At(ep, k) = d.new_ep
                    /\ At(af, k) = d.new_af

C15_Witness ==
    /\ \E k \in Scanned :
          /\ At(trend, k) = 1 /\ high(k) = Decided(k).new_ep
          /\ At(af, k) + af_start <= af_limit /\ af_start > 0
    /\ \E k \in Scanned :
          At(trend, k) = 1 /\ high(k) > Decided(k).new_ep

\* ---------------------------------------------------- the script's requests
EndsWith(s, t) == Len(s) >= Len(t) /\ SubSeq(s, Len(s) - Len(t) + 1, Len(s)) = t

\* the symbol the user meant: the text of the box, trimmed, in capitals,
\* without its exchange suffix
Bare(s) ==
    LET u == Upper(Strip(s))
    IN  IF EndsWith(u, TWO) THEN SubSeq(u, 1, Len(u) - Len(TWO))
        ELSE IF EndsWith(u, TW) THEN SubSeq(u, 1, Len(u) - Len(TW))
        ELSE u

Suffixes == << <<>>, TW, TWO >>

\* the run is inside the call of the engine
InEngine == pc \in {"call", "loop", "done", "raised"}

\* the requests of the run are for symbol, symbol.TW, symbol.TWO in that
\* order, each one made only after empty answers, and the engine works on
\* the first table that is not empty
FallbackOrder(symbol) ==
    /\ Len(requests) <= 3
    /\ \A k \in 1..Len(requests) :
          /\ requests[k].symbol = symbol \o Suffixes[k]
          /\ \A j \in 1..(k - 1) : requests[j].table = <<>>
    /\ InEngine =>
          /\ requests # <<>>
          /\ requests[Len(requests)].table # <<>>
          /\ df = requests[Len(requests)].table

\* the same, for the symbol as line 113 computes it
FallbackOrderOfBaseId == FallbackOrder(BaseId(stock_id))

\* C16: in one run the bars are requested for the bare symbol, then for
\* symbol.TW, then for symbol.TWO; a later request is made only if every
\* earlier one returned an empty table, the first table that is not empty
\* goes to the engine, and a run makes at most three requests.
C16_SuffixFallbackOrdering == FallbackOrder(Bare(stock_id))

AllEmpty ==
    /\ Len(requests) = 3
    /\ \A k \in 1..3 : requests[k].table = <<>>

C17_States ==
    /\ (apc = "idle" /\ AllEmpty) => (shown = "error" /\ ~submitted)
    /\ AllEmpty => ~InEngine
    /\ InEngine => (Len(df) > 0 /\ submitted /\ apc = "engine")

C17_Steps ==
    /\ (~submitted /\ submitted') => Press
    /\ (~InEngine /\ InEngine') => (submitted /\ Len(df') > 0)
    /\ (AllEmpty /\ apc # "idle") =>
          (shown' = "error" /\ ~submitted' /\ apc' = "idle" /\ ~InEngine')

\* C17: when all three requests return an empty table the run shows the
\* error, resets submitted to False and does not call the engine; the
\* engine is called only with a table that is not empty and only in a run
\* where submitted is True, and only a press of the button sets submitted.
C17_LookupFailure == []C17_States /\ [][C17_Steps]_vars

C17_Witness == apc = "idle" /\ AllEmpty /\ shown = "error" /\ ~submitted

\* every bar has its close between its low and its high
WellFormed == \A k \in 1..Len(df) : df[k].Low <= df[k].Close /\ df[k].Close <= df[k].High

\* 0 < af_start <= af_limit <= 1
UnitParams == 0 < af_start /\ af_start <= af_limit /\ af_limit <= af_den

\* the indices of a returned scan, index 0 included
Emitted == IF pc = "done" THEN 0..(size - 1) ELSE {}

\* C18: on well-formed bars with 0 < af_start <= af_limit <= 1 the stop of
\* every index is at or below the close when the trend is Up and at or above
\* it when the trend is Down.
C18_StopOnCorrectSide ==
    (WellFormed /\ UnitParams) =>
        \A k \in Emitted :
            IF At(trend, k) = 1
            THEN GE(close(k), At(sar, k))
            ELSE LE(close(k), At(sar, k))

C18_Witness ==
    /\ WellFormed /\ UnitParams /\ pc = "done"
    /\ \E k \in Scanned : ConfirmedBreach(k) /\ WasUp(k) /\ LT(close(k), At(sar, k))
    /\ \E k \in Scanned : TouchWithoutConfirm(k) \/ ~Touch(k)

\* C19: with high[0] >= low[0] and 0 < af_start <= af_limit <= 1 the stop is
\* at or below the extreme when the trend is Up and at or above it when the
\* trend is Down, at every index of a returned scan; so on a reversal the new
\* stop, the previous extreme, is at or beyond the candidate stop breached.
C19_StopWithinExtreme ==
    (pc = "done" /\ high(0) >= low(0) /\ UnitParams) =>
        /\ \A k \in Emitted :
              IF At(trend, k) = 1
              THEN GE(At(ep, k), At(sar, k))
              ELSE LE(At(ep, k), At(sar, k))
        /\ \A k \in Scanned :
              LET c == Candidate(k)
              IN  (TouchAt(k, c) /\ ~HoldsAt(k, c)) =>
                     /\ EQ(At(ep, k - 1), At(sar, k))
                     /\ IF WasUp(k)
                        THEN GE(At(ep, k - 1), c)
                        ELSE LE(At(ep, k - 1), c)

C19_Witness ==
    /\ UnitParams /\ pc = "done"
    /\ \E k \in Scanned :
          ConfirmedBreach(k) /\ WasUp(k) /\ GT(At(ep, k - 1), Candidate(k))
    /\ \E k \in Scanned : At(trend, k) = 1 /\ GT(At(ep, k), At(sar, k))

\* two stop levels are the same number
SameLevel(x, y) == x[1] * y[2] = y[1] * x[2]

\* both calls have returned
BothReturned == pc = "done" /\ kept # <<>>

\* C20: two frames that agree on their first k >= 2 bars, with the same
\* af_start and af_limit, give the same stop and the same trend at the
\* indices 0..k-1: here the frame of the first call and the same frame with
\* one more bar, from which frames further apart follow one bar at a time.
C20_PrefixStability ==
    BothReturned =>
        /\ Len(kept[1]) = Len(full) - 1
        /\ Len(kept[2]) = Len(full) - 1
        /\ \A k \in 0..(Len(full) - 2) :
              /\ SameLevel(At(result[1], k), At(kept[1], k))
              /\ At(result[2], k) = At(kept[2], k)

C20_Witness ==
    /\ BothReturned
    /\ ConfirmedBreach(size - 1)
    /\ close(size - 1) <= close(0)
    /\ At(kept[2], 0) = 1

====
